---------------------------- MODULE Spec2Model ----------------------------
(***************************************************************************)
(* A model of AGMMRCalculator (src/src/main.ts): the Rating Store          *)
(* (_playerRatings), ensurePlayerRatings and processMatch with the helpers *)
(* it calls.                                                               *)
(*                                                                         *)
(* Numbers.  mu and sigma are held in tenths (250 is 25.0).  Every other   *)
(* real number of the code is an exact rational [n, d] in lowest terms, so *)
(* that team averages, d/10, d/15 and the products before Math.round are   *)
(* computed exactly.  Floating-point rounding error is not modelled.       *)
(*                                                                         *)
(* Indices.  The code's teamIdx 0 (blue) and 1 (red) are 1 and 2 here, and *)
(* its idx 0.. is 1.. here (TLA+ sequences start at 1).                    *)
(*                                                                         *)
(* processMatch is synchronous.  It is modelled as the steps processMatch   *)
(* (lines 81-107), rate (lines 111-125), then for each iteration of the    *)
(* loop of lines 128-201 the iteration and its end, then the return of     *)
(* line 203; no other operation runs in between.                           *)
(***************************************************************************)
EXTENDS Integers, Sequences, FiniteSets, TLC

VARIABLES
    playerRatings,  \* _playerRatings: steamID -> Rating, or Absent
    pc,             \* "idle" | "rating" | "adjusting" | "written" | "returning" | "threw"
    op,             \* the operation of the last step
    ensArgs,        \* the argument of the last step when it was ensurePlayerRatings
    match,          \* the locals of the processMatch call in progress or last ended
    pos,            \* the loop position of lines 128-129: <<teamIdx, idx>>
    cur             \* the locals of the last loop iteration and the record it wrote

vars == <<playerRatings, pc, op, ensArgs, match, pos, cur>>

-----------------------------------------------------------------------------
(* Bounds of the model *)

NumPlayers == 3
MaxTeamSize == 2
MaxEnsure == 2
MaxFrags == 1

Players == 1..NumPlayers

Absent == [absent |-> TRUE]        \* Map.has(steamID) is false
Undefined == [undefined |-> TRUE]  \* newRatings[teamIdx]?.[idx] is undefined
Null == [null |-> TRUE]            \* previousMatchDetail === null

(* The ratings the callers, the initial-rating constructor and the oracle   *)
(* produce, in tenths.                                                      *)
RatingSet ==
    { [mu |-> 200, sigma |-> 80],
      [mu |-> 250, sigma |-> 60] }

(* The ratings before a match in the specification of the loop alone: team  *)
(* averages 0, 1.5, 2.5, 3.5 and 5 apart.                                   *)
RichRatingSet == RatingSet \cup { [mu |-> 235, sigma |-> 60] }

-----------------------------------------------------------------------------
(* Exact rationals *)

Abs(i) == IF i < 0 THEN -i ELSE i

RECURSIVE GCD(_, _)
GCD(a, b) == IF b = 0 THEN a ELSE GCD(b, a % b)

Rat(n, d) ==
    LET g == GCD(Abs(n), Abs(d))
        s == IF d < 0 THEN -1 ELSE 1
    IN  [n |-> (s * n) \div g, d |-> (s * d) \div g]

RInt(i) == [n |-> i, d |-> 1]
RAdd(a, b) == Rat(a.n * b.d + b.n * a.d, a.d * b.d)
RSub(a, b) == Rat(a.n * b.d - b.n * a.d, a.d * b.d)
RMul(a, b) == Rat(a.n * b.n, a.d * b.d)
RDivInt(a, k) == Rat(a.n, a.d * k)
RLt(a, b) == a.n * b.d < b.n * a.d
RMin(a, b) == IF RLt(b, a) THEN b ELSE a
RMax(a, b) == IF RLt(a, b) THEN b ELSE a
RAbs(a) == [n |-> Abs(a.n), d |-> a.d]
(* Math.round: the nearest integer, a half rounding up *)
RRound(a) == (2 * a.n + a.d) \div (2 * a.d)

IMin(a, b) == IF b < a THEN b ELSE a
IMax(a, b) == IF a < b THEN b ELSE a

RECURSIVE SeqSum(_)
SeqSum(s) == IF s = <<>> THEN 0 ELSE Head(s) + SeqSum(Tail(s))

RECURSIVE RSeqSum(_)
RSeqSum(s) == IF s = <<>> THEN RInt(0) ELSE RAdd(Head(s), RSeqSum(Tail(s)))

SeqRange(s) == { s[i] : i \in 1..Len(s) }

(* The members of S in ascending order *)
RECURSIVE Sorted(_)
Sorted(S) ==
    IF S = {} THEN <<>>
    ELSE LET m == CHOOSE x \in S : \A y \in S : x <= y
         IN  <<m>> \o Sorted(S \ {m})

(* The sequences over S of length lo..hi *)
SeqsOf(S, lo, hi) == UNION { [1..n -> S] : n \in lo..hi }

-----------------------------------------------------------------------------
(* Rating Store *)

(* openskill's rating({mu, sigma}) *)
rating(init) == [mu |-> init.mu, sigma |-> init.sigma]

(* The caller's Player entities *)
PlayerSet == { [steamID |-> p, skillMu |-> r.mu, skillSigma |-> r.sigma] :
                 p \in Players, r \in RatingSet }

(* A seeding that blends the supplied rating into an entry already present *)
RECURSIVE ensureLoop_Blend(_, _)
ensureLoop_Blend(store, players) ==
    IF players = <<>> THEN store
    ELSE LET player == Head(players)
             old == store[player.steamID]
             playerRating ==
                 IF old = Absent
                 THEN rating([mu |-> player.skillMu, sigma |-> player.skillSigma])
                 ELSE rating([mu |-> (old.mu + player.skillMu) \div 2,
                              sigma |-> player.skillSigma])
         IN  ensureLoop_Blend([store EXCEPT ![player.steamID] = playerRating],
                              Tail(players))

RECURSIVE ensureLoop(_, _)
ensureLoop(store, players) ==
    IF players = <<>> THEN store
    ELSE LET player == Head(players)
             playerRating == rating([mu |-> player.skillMu, sigma |-> player.skillSigma])
         IN  ensureLoop([store EXCEPT ![player.steamID] = playerRating], Tail(players))

NoMatch ==
    [ blue |-> <<>>, red |-> <<>>, oldRatings |-> <<<<>>, <<>>>>,
      newRatings |-> <<<<>>, <<>>>>, winner |-> "none", tied |-> FALSE,
      rank |-> <<0, 0>>, blueAvgSkill |-> RInt(0), redAvgSkill |-> RInt(0),
      skillDifference |-> RInt(0), annotated |-> {} ]

NoCur ==
    [ kind |-> "none", steamID |-> 0, teamIdx |-> 0, teamLen |-> 0,
      isWinner |-> FALSE, previousMatchDetail |-> Null, previousMMR |-> 0,
      initialMMR |-> 0, baseMMRChange |-> RInt(0),
      performanceAdjustment |-> RInt(0), score |-> 0, teammateScores |-> <<>>,
      carryAdjustment |-> 0, balanceFactor |-> RInt(0), adjustment |-> RInt(0),
      rawDelta |-> 0, mmrDelta |-> 0, mmrAfterMatch |-> 0 ]

ensurePlayerRatings(players) ==
    /\ pc = "idle"
    /\ playerRatings' = ensureLoop(playerRatings, players)
    /\ pc' = "idle"
    /\ op' = IF op \in {"ensure", "ensure-again"} /\ ensArgs = players
             THEN "ensure-again" ELSE "ensure"
    /\ ensArgs' = players
    /\ match' = NoMatch
    /\ pos' = <<0, 0>>
    /\ cur' = NoCur

-----------------------------------------------------------------------------
(* The collaborators of processMatch that are not in main.ts.  Each is a    *)
(* pure function of the match records; its result is an input of the step   *)
(* that calls it, drawn from a small set.                                   *)

(* calculateIndividualPerformance(player, population).score, in tenths *)
ScoreSet == {5, 25}
RichScoreSet == {5, 9, 15, 25}

(* calculatePerformanceAdjustment(performance, isWinner, team.length) *)
PerfAdjSet == { Rat(5, 2) }
RichPerfAdjSet == { Rat(-50, 1), Rat(5, 2), Rat(50, 1) }

(* calculateInitialMMR(newRating, performance) *)
InitialMMRSet == {0, 1200}

(* previousMatchDetails[steamID]: null, or a record with its mmrAfterMatch *)
PrevSet == { Null, [mmrAfterMatch |-> 0], [mmrAfterMatch |-> 1000] }

(* The rosters: each player on the blue team, on the red team or not in the *)
(* match, both teams non-empty.                                             *)
Rosters ==
    { a \in [Players -> {"blue", "red", "none"}] :
        /\ Cardinality({ p \in Players : a[p] = "blue" }) \in 1..MaxTeamSize
        /\ Cardinality({ p \in Players : a[p] = "red" }) \in 1..MaxTeamSize }

(* matchDetails: the records of the participants *)
MatchDetailsOf(a, f) ==
    LET ps == Sorted({ p \in Players : a[p] # "none" })
    IN  [ i \in 1..Len(ps) |->
            [steamID |-> ps[i], model |-> a[ps[i]], frags |-> f[ps[i]]] ]

IsBlue(m) == m.model = "blue"
IsRed(m) == m.model = "red"

organizeTeams(matchDetails) ==
    [ blueTeam |-> SelectSeq(matchDetails, IsBlue),
      redTeam |-> SelectSeq(matchDetails, IsRed) ]

Frags(team) == SeqSum([ i \in 1..Len(team) |-> team[i].frags ])

(* The team with strictly more kills wins; equal kills are decided by the   *)
(* tie-break, which is one of the two teams.                                *)
determineWinner(blueTeam, redTeam, tieBreak) ==
    IF Frags(blueTeam) > Frags(redTeam) THEN "blue"
    ELSE IF Frags(redTeam) > Frags(blueTeam) THEN "red"
    ELSE tieBreak

-----------------------------------------------------------------------------
(* processMatch, lines 81-107 *)

(* A lookup that seeds the rating again although the player is present *)
getOrCreatePlayerRating_Reseed(store, steamID, initial) ==
    [store EXCEPT ![steamID] = initial[steamID]]

(* The store after getOrCreatePlayerRating(steamID, matchDetail);           *)
(* initial[steamID] is calculateInitialRating(calculateSkillProxy(matchDetail)) *)
getOrCreatePlayerRating(store, steamID, initial) ==
    IF store[steamID] = Absent
    THEN [store EXCEPT ![steamID] = initial[steamID]]
    ELSE store

(* team.map(match => getOrCreatePlayerRating(...)): the store after it *)
RECURSIVE getOrCreateAll(_, _, _)
getOrCreateAll(store, team, initial) ==
    IF team = <<>> THEN store
    ELSE getOrCreateAll(
            getOrCreatePlayerRating(store, Head(team).steamID, initial),
            Tail(team), initial)

Ids(team) == [ i \in 1..Len(team) |-> team[i].steamID ]

calculateTeamSkill(ratings) ==
    LET totalMu == SeqSum([ i \in 1..Len(ratings) |-> ratings[i].mu ])
    IN  Rat(totalMu, 10 * Len(ratings))

processMatch(matchDetails, tieBreak, initial) ==
    LET teams == organizeTeams(matchDetails)
        blueTeam == teams.blueTeam
        redTeam == teams.redTeam
        store1 == getOrCreateAll(playerRatings, blueTeam, initial)
        blueRatings == [ i \in 1..Len(blueTeam) |-> store1[blueTeam[i].steamID] ]
        store2 == getOrCreateAll(store1, redTeam, initial)
        redRatings == [ i \in 1..Len(redTeam) |-> store2[redTeam[i].steamID] ]
        blueAvgSkill == calculateTeamSkill(blueRatings)
        redAvgSkill == calculateTeamSkill(redRatings)
    IN  /\ pc = "idle"
        /\ playerRatings' = store2
        /\ match' = [ blue |-> Ids(blueTeam), red |-> Ids(redTeam),
                      oldRatings |-> <<blueRatings, redRatings>>,
                      newRatings |-> <<<<>>, <<>>>>,
                      winner |-> determineWinner(blueTeam, redTeam, tieBreak),
                      tied |-> Frags(blueTeam) = Frags(redTeam),
                      rank |-> <<0, 0>>,
                      blueAvgSkill |-> blueAvgSkill,
                      redAvgSkill |-> redAvgSkill,
                      skillDifference |-> RAbs(RSub(blueAvgSkill, redAvgSkill)),
                      annotated |-> {} ]
        /\ pc' = "rating"
        /\ op' = "processMatch"
        /\ ensArgs' = <<>>
        /\ pos' = <<0, 0>>
        /\ cur' = NoCur

-----------------------------------------------------------------------------
(* processMatch, lines 111-125: the oracle and the cache update *)

Teams == <<match.blue, match.red>>

(* newRatings[teamIdx]?.[idx] *)
NewRatingAt(newRatings, teamIdx, idx) ==
    IF idx <= Len(newRatings[teamIdx]) THEN newRatings[teamIdx][idx] ELSE Undefined

RECURSIVE cacheTeam(_, _, _, _, _)
cacheTeam(store, team, newRatings, teamIdx, idx) ==
    IF idx > Len(team) THEN store
    ELSE LET steamId == team[idx]
             newRating == NewRatingAt(newRatings, teamIdx, idx)
             next == IF newRating # Undefined
                     THEN [store EXCEPT ![steamId] = newRating]
                     ELSE store
         IN  cacheTeam(next, team, newRatings, teamIdx, idx + 1)

cacheRatings(store, newRatings) ==
    cacheTeam(cacheTeam(store, match.blue, newRatings, 1, 1),
              match.red, newRatings, 2, 1)

rankOf(winner) == IF winner = "blue" THEN <<1, 2>> ELSE <<2, 1>>

(* rate([blueRatings, redRatings], {rank}) returns newRatings *)
rate(newRatings) ==
    /\ pc = "rating"
    /\ match' = [match EXCEPT !.newRatings = newRatings, !.rank = rankOf(match.winner)]
    /\ playerRatings' = cacheRatings(playerRatings, newRatings)
    /\ pc' = "adjusting"
    /\ pos' = <<1, 1>>
    /\ op' = "rate"
    /\ UNCHANGED <<ensArgs, cur>>

-----------------------------------------------------------------------------
(* The helpers of the loop of lines 128-201 *)

(* The carry adjustment with the won and lost rows of the table exchanged *)
calculateCarryAdjustment_RowsSwapped(playerMatch, team, playerPerformance, isWinner, teammatePerformances) ==
    IF Len(team) < 2 THEN 0
    ELSE
      LET performanceDifference ==
              RSub(playerPerformance,
                   RDivInt(RSeqSum(teammatePerformances), Len(teammatePerformances)))
          carryAdjustment ==
              IF RLt(Rat(4, 10), performanceDifference)
              THEN IF isWinner
                   THEN RMin(RInt(18), RMul(performanceDifference, RInt(12)))
                   ELSE RMin(RInt(8), RMul(performanceDifference, RInt(4)))
              ELSE IF RLt(performanceDifference, Rat(-4, 10))
              THEN IF ~isWinner
                   THEN RMax(RInt(-12), RMul(performanceDifference, RInt(8)))
                   ELSE RMax(RInt(-10), RMul(performanceDifference, RInt(6)))
              ELSE RInt(0)
      IN  IF RLt(RAbs(performanceDifference), Rat(4, 10)) THEN 0
          ELSE RRound(carryAdjustment)

(* lines 223-284.  teammatePerformances are the scores that                 *)
(* calculateIndividualPerformance gives the teammates (line 241).           *)
calculateCarryAdjustment(playerMatch, team, playerPerformance, isWinner, teammatePerformances) ==
    IF Len(team) < 2 THEN 0
    ELSE
      LET teammateAvgPerformance ==
              RDivInt(RSeqSum(teammatePerformances), Len(teammatePerformances))
          performanceDifference == RSub(playerPerformance, teammateAvgPerformance)
          carryAdjustment ==
              IF RLt(Rat(4, 10), performanceDifference)
              THEN IF ~isWinner
                   THEN RMin(RInt(18), RMul(performanceDifference, RInt(12)))
                   ELSE RMin(RInt(8), RMul(performanceDifference, RInt(4)))
              ELSE IF RLt(performanceDifference, Rat(-4, 10))
              THEN IF isWinner
                   THEN RMax(RInt(-12), RMul(performanceDifference, RInt(8)))
                   ELSE RMax(RInt(-10), RMul(performanceDifference, RInt(6)))
              ELSE RInt(0)
      IN  IF RLt(RAbs(performanceDifference), Rat(4, 10)) THEN 0
          ELSE RRound(carryAdjustment)

(* lines 296-310 *)
convertRatingChangeToMMR(oldRating, newRating) ==
    LET muChange == Rat(newRating.mu - oldRating.mu, 10)
        sigmaReduction == RMax(RInt(0), Rat(oldRating.sigma - newRating.sigma, 10))
    IN  RAdd(RMul(muChange, RInt(5)), RMul(sigmaReduction, Rat(15, 10)))

(* The balance factor with the upset test inverted *)
calculateBalanceFactor_UpsetInverted(skillDifference, isWinner, playerTeamSkill, opponentTeamSkill) ==
    LET isUpset ==
            \/ isWinner /\ RLt(opponentTeamSkill, playerTeamSkill)
            \/ ~isWinner /\ RLt(playerTeamSkill, opponentTeamSkill)
        factor ==
            IF RLt(RInt(3), skillDifference)
            THEN IF isUpset
                 THEN RAdd(Rat(13, 10), RMin(Rat(4, 10), RDivInt(skillDifference, 10)))
                 ELSE RSub(Rat(8, 10), RMin(Rat(2, 10), RDivInt(skillDifference, 15)))
            ELSE RInt(1)
    IN  RMax(Rat(5, 10), RMin(Rat(18, 10), factor))

(* lines 337-364 *)
calculateBalanceFactor(skillDifference, isWinner, playerTeamSkill, opponentTeamSkill) ==
    LET isUpset ==
            \/ isWinner /\ RLt(playerTeamSkill, opponentTeamSkill)
            \/ ~isWinner /\ RLt(opponentTeamSkill, playerTeamSkill)
        factor ==
            IF RLt(RInt(3), skillDifference)
            THEN IF isUpset
                 THEN RAdd(Rat(13, 10), RMin(Rat(4, 10), RDivInt(skillDifference, 10)))
                 ELSE RSub(Rat(8, 10), RMin(Rat(2, 10), RDivInt(skillDifference, 15)))
            ELSE RInt(1)
    IN  RMax(Rat(5, 10), RMin(Rat(18, 10), factor))

(* The clamp without the minimum movement of 2 *)
clampMMRDelta_NoMinimum(mmrDelta, isWinner) ==
    IF isWinner
    THEN IMax(0, IMin(40, mmrDelta))
    ELSE IMax(-40, IMin(0, mmrDelta))

(* lines 378-386 *)
clampMMRDelta(mmrDelta, isWinner) ==
    IF isWinner
    THEN IMax(2, IMin(40, mmrDelta))
    ELSE IMax(-40, IMin(-2, mmrDelta))

(* The winner test without its red half *)
isWinnerOf_BlueOnly(winner, teamIdx) == winner = "blue" /\ teamIdx = 1

(* lines 134-136 *)
isWinnerOf(winner, teamIdx) ==
    \/ winner = "blue" /\ teamIdx = 1
    \/ winner = "red" /\ teamIdx = 2

(* line 133: previousMatchDetail?.mmrAfterMatch ?? 0 *)
previousMMROf(previousMatchDetail) ==
    IF previousMatchDetail = Null THEN 0 ELSE previousMatchDetail.mmrAfterMatch

(* A first-match test that takes a previous MMR of 0 for no previous match *)
isFirstMatchOf_ZeroMMR(previousMatchDetail) == previousMMROf(previousMatchDetail) = 0

(* line 132 *)
isFirstMatchOf(previousMatchDetail) == previousMatchDetail = Null

(* The new total without the floor at 0 *)
finalMMR_NoFloor(previousMMR, mmrDelta) == previousMMR + mmrDelta

(* line 194 *)
finalMMR(previousMMR, mmrDelta) == IMax(0, previousMMR + mmrDelta)

(* The position after <<teamIdx, idx>> in the two forEach loops, and       *)
(* <<0, 0>> after the last one                                             *)
nextPos(teamIdx, idx) ==
    IF idx < Len(Teams[teamIdx]) THEN <<teamIdx, idx + 1>>
    ELSE IF teamIdx = 1 THEN <<2, 1>>
    ELSE <<0, 0>>

(* lines 198-199: match.mmrAfterMatch and match.mmrDelta are written; the   *)
(* values are those of cur                                                  *)
WriteRecord(steamId) ==
    /\ match' = [match EXCEPT !.annotated = @ \cup {steamId}]
    /\ pc' = "written"
    /\ op' = "adjust"
    /\ UNCHANGED <<playerRatings, ensArgs, pos>>

-----------------------------------------------------------------------------
(* One iteration of the loop of lines 128-201 *)

(* lines 145-148: the placement branch *)
adjustFirstMatch(previousMatchDetail, initialMMR) ==
    LET teamIdx == pos[1]
        idx == pos[2]
        team == Teams[teamIdx]
        newRating == NewRatingAt(match.newRatings, teamIdx, idx)
        mmrAfterMatch == initialMMR
        mmrDelta == mmrAfterMatch
    IN  /\ pc = "adjusting"
        /\ isFirstMatchOf(previousMatchDetail)
        /\ newRating # Undefined
        /\ cur' = [ NoCur EXCEPT
                      !.kind = "first", !.steamID = team[idx], !.teamIdx = teamIdx,
                      !.teamLen = Len(team),
                      !.isWinner = isWinnerOf(match.winner, teamIdx),
                      !.previousMatchDetail = previousMatchDetail,
                      !.previousMMR = previousMMROf(previousMatchDetail),
                      !.initialMMR = initialMMR,
                      !.mmrDelta = mmrDelta, !.mmrAfterMatch = mmrAfterMatch ]
        /\ WriteRecord(team[idx])

(* lines 149-195: the established branch *)
adjustEstablished(previousMatchDetail, score, performanceAdjustment, teammatePerformances) ==
    LET teamIdx == pos[1]
        idx == pos[2]
        team == Teams[teamIdx]
        previousMMR == previousMMROf(previousMatchDetail)
        isWinner == isWinnerOf(match.winner, teamIdx)
        oldRating == match.oldRatings[teamIdx][idx]
        newRating == NewRatingAt(match.newRatings, teamIdx, idx)
        baseMMRChange == convertRatingChangeToMMR(oldRating, newRating)
        balanceFactor ==
            calculateBalanceFactor(
                match.skillDifference, isWinner,
                IF teamIdx = 1 THEN match.blueAvgSkill ELSE match.redAvgSkill,
                IF teamIdx = 1 THEN match.redAvgSkill ELSE match.blueAvgSkill)
        performance == Rat(score, 10)
        carryAdjustment ==
            calculateCarryAdjustment(team[idx], team, performance, isWinner,
                                     [ i \in DOMAIN teammatePerformances |->
                                         Rat(teammatePerformances[i], 10) ])
        rawDelta ==
            RRound(RMul(RAdd(RAdd(baseMMRChange, performanceAdjustment),
                             RInt(carryAdjustment)),
                        balanceFactor))
        mmrDelta == clampMMRDelta(rawDelta, isWinner)
        mmrAfterMatch == finalMMR(previousMMR, mmrDelta)
    IN  /\ pc = "adjusting"
        /\ ~isFirstMatchOf(previousMatchDetail)
        /\ newRating # Undefined
        /\ cur' = [ NoCur EXCEPT
                      !.kind = "established", !.steamID = team[idx], !.teamIdx = teamIdx,
                      !.teamLen = Len(team),
                      !.isWinner = isWinner,
                      !.previousMatchDetail = previousMatchDetail,
                      !.previousMMR = previousMMR,
                      !.baseMMRChange = baseMMRChange,
                      !.performanceAdjustment = performanceAdjustment,
                      !.score = score,
                      !.teammateScores = teammatePerformances,
                      !.carryAdjustment = carryAdjustment,
                      !.balanceFactor = balanceFactor,
                      !.adjustment = RAdd(performanceAdjustment, RInt(carryAdjustment)),
                      !.rawDelta = rawDelta,
                      !.mmrDelta = mmrDelta, !.mmrAfterMatch = mmrAfterMatch ]
        /\ WriteRecord(team[idx])

(* The iteration reads newRating.mu (line 301, or calculateInitialMMR) of   *)
(* an undefined newRating: a TypeError leaves processMatch.                 *)
adjustThrows ==
    /\ pc = "adjusting"
    /\ NewRatingAt(match.newRatings, pos[1], pos[2]) = Undefined
    /\ pc' = "threw"
    /\ op' = "throw"
    /\ UNCHANGED <<playerRatings, ensArgs, match, pos, cur>>

(* line 200: the callback of the iteration returns, its locals are gone, and *)
(* forEach goes to the next record, or to line 203 after the last one       *)
nextIteration ==
    /\ pc = "written"
    /\ pos' = nextPos(pos[1], pos[2])
    /\ pc' = IF nextPos(pos[1], pos[2]) = <<0, 0>> THEN "returning" ELSE "adjusting"
    /\ cur' = NoCur
    /\ op' = "next"
    /\ UNCHANGED <<playerRatings, ensArgs, match>>

(* line 203: return matchDetails; the call's locals are gone *)
returnMatch ==
    /\ pc = "returning"
    /\ pc' = "idle"
    /\ op' = "return"
    /\ match' = NoMatch
    /\ cur' = NoCur
    /\ pos' = <<0, 0>>
    /\ UNCHANGED <<playerRatings, ensArgs>>

(* The caller catches the TypeError; the calculator stays in use *)
catchError ==
    /\ pc = "threw"
    /\ pc' = "idle"
    /\ op' = "catch"
    /\ match' = NoMatch
    /\ cur' = NoCur
    /\ pos' = <<0, 0>>
    /\ UNCHANGED <<playerRatings, ensArgs>>

TeammateCount == IF pc = "adjusting" THEN Len(Teams[pos[1]]) - 1 ELSE 0

adjustPlayer(prevs, scores, perfAdjs) ==
    \/ \E previousMatchDetail \in prevs :
         \E initialMMR \in InitialMMRSet :
           adjustFirstMatch(previousMatchDetail, initialMMR)
    \/ \E previousMatchDetail \in prevs :
         \E score \in scores :
           \E performanceAdjustment \in perfAdjs :
             \E teammatePerformances \in [1..TeammateCount -> scores] :
               adjustEstablished(previousMatchDetail, score, performanceAdjustment,
                                 teammatePerformances)

-----------------------------------------------------------------------------

Init ==
    /\ playerRatings = [p \in Players |-> Absent]
    /\ pc = "idle"
    /\ op = "new"
    /\ ensArgs = <<>>
    /\ match = NoMatch
    /\ pos = <<0, 0>>
    /\ cur = NoCur

Next ==
    \/ \E players \in SeqsOf(PlayerSet, 0, MaxEnsure) : ensurePlayerRatings(players)
    \/ \E a \in Rosters :
         \E f \in [{ p \in Players : a[p] # "none" } -> 0..MaxFrags] :
           \E tieBreak \in {"blue", "red"} :
             \E initial \in [{ p \in Players : a[p] # "none" } -> RatingSet] :
               processMatch(MatchDetailsOf(a, f), tieBreak, initial)
    \/ \E newBlue \in SeqsOf(RatingSet, 0, Len(match.blue)) :
         \E newRed \in SeqsOf(RatingSet, 0, Len(match.red)) :
           rate(<<newBlue, newRed>>)
    \/ adjustPlayer(PrevSet, ScoreSet, PerfAdjSet)
    \/ nextIteration
    \/ adjustThrows
    \/ returnMatch
    \/ catchError

Spec == Init /\ [][Next]_vars

-----------------------------------------------------------------------------
(* The loop of lines 128-201 alone, from every state processMatch can be in *)
(* at line 127 with a full oracle result, the inputs of an iteration drawn  *)
(* from the richer sets.                                                    *)

InitAdjust ==
    \E nb \in 1..MaxTeamSize, nr \in 1..MaxTeamSize :
      /\ nb + nr <= NumPlayers
      /\ \E oldBlue \in [1..nb -> RichRatingSet], oldRed \in [1..nr -> RichRatingSet],
            newBlue \in [1..nb -> RatingSet], newRed \in [1..nr -> RatingSet],
            winner \in {"blue", "red"} :
           /\ match = [ blue |-> [i \in 1..nb |-> i],
                        red |-> [i \in 1..nr |-> nb + i],
                        oldRatings |-> <<oldBlue, oldRed>>,
                        newRatings |-> <<newBlue, newRed>>,
                        winner |-> winner,
                        tied |-> FALSE,
                        rank |-> rankOf(winner),
                        blueAvgSkill |-> calculateTeamSkill(oldBlue),
                        redAvgSkill |-> calculateTeamSkill(oldRed),
                        skillDifference |->
                            RAbs(RSub(calculateTeamSkill(oldBlue),
                                      calculateTeamSkill(oldRed))),
                        annotated |-> {} ]
           /\ playerRatings =
                  [ p \in Players |->
                      IF p <= nb THEN newBlue[p]
                      ELSE IF p <= nb + nr THEN newRed[p - nb]
                      ELSE Absent ]
      /\ pc = "adjusting"
      /\ op = "rate"
      /\ ensArgs = <<>>
      /\ pos = <<1, 1>>
      /\ cur = NoCur

NextAdjust ==
    \/ adjustPlayer(PrevSet, RichScoreSet, RichPerfAdjSet)
    \/ nextIteration

SpecAdjust == InitAdjust /\ [][NextAdjust]_vars

-----------------------------------------------------------------------------
(* What the properties below read off a state *)

Participants == SeqRange(match.blue) \cup SeqRange(match.red)

InMatch == pc \in {"adjusting", "written", "returning", "threw"}

(* The team of the iteration in cur won: its colour is the declared winner *)
CurTeamWon == match.winner = <<"blue", "red">>[cur.teamIdx]

MuSum(ratings) == SeqSum([ i \in 1..Len(ratings) |-> ratings[i].mu ])

(* The team averages before the match as integers: with                     *)
(* SkillW = 10 * |blue| * |red|, the own team's average mu is OwnSkillN /   *)
(* SkillW, the other team's OppSkillN / SkillW and their absolute           *)
(* difference SkillDiffN / SkillW.                                          *)
SkillW == 10 * Len(match.blue) * Len(match.red)
BlueSkillN == MuSum(match.oldRatings[1]) * Len(match.red)
RedSkillN == MuSum(match.oldRatings[2]) * Len(match.blue)
OwnSkillN == IF cur.teamIdx = 1 THEN BlueSkillN ELSE RedSkillN
OppSkillN == IF cur.teamIdx = 1 THEN RedSkillN ELSE BlueSkillN
SkillDiffN == Abs(BlueSkillN - RedSkillN)

CurUpset ==
    \/ CurTeamWon /\ OwnSkillN < OppSkillN
    \/ ~CurTeamWon /\ OwnSkillN > OppSkillN

(* The subject's score minus the teammates' average score is                *)
(* DiffN / (10 * DiffM).                                                    *)
DiffM == Len(cur.teammateScores)
DiffN == cur.score * DiffM - SeqSum(cur.teammateScores)

(* Math.round(a / b) for b > 0 *)
RoundDiv(a, b) == (2 * a + b) \div (2 * b)

(* The oracle's result lacks the rating of some participant *)
OracleShort ==
    \E t \in 1..2 : Len(match.newRatings[t]) < Len(Teams[t])

-----------------------------------------------------------------------------
(* C1: the mmrDelta written for an established player is in 2..40 when the  *)
(* player's team won and in -40..-2 when it lost: never zero, never outside *)
(* these bounds, whatever the base change, the performance and carry        *)
(* adjustments and the balance factor are.                                  *)
C1_EstablishedDeltaClamped ==
    cur.kind = "established" =>
        /\ CurTeamWon => cur.mmrDelta \in 2..40
        /\ ~CurTeamWon => cur.mmrDelta \in (-40)..(-2)

(* A winner whose combined change came out negative was given +2 *)
C1_Witness ==
    /\ cur.kind = "established"
    /\ CurTeamWon
    /\ cur.rawDelta < 0
    /\ cur.mmrDelta = 2

C3_FailSoft ==
    (InMatch /\ OracleShort) =>
        /\ pc # "threw"
        /\ \A t \in 1..2 : \A i \in 1..Len(Teams[t]) :
              i > Len(match.newRatings[t]) =>
                  playerRatings[Teams[t][i]] = match.oldRatings[t][i]
        /\ pc = "returning" => match.annotated = Participants

(* C4: ensurePlayerRatings leaves every entry already in the store as it    *)
(* is, whatever mu and sigma the caller supplies.                           *)
C4_EnsureNeverOverwrites ==
    [][ op' \in {"ensure", "ensure-again"} =>
            \A p \in Players :
                playerRatings[p] # Absent => playerRatings'[p] = playerRatings[p] ]_vars

(* C5: a call of ensurePlayerRatings with the list of the call right before *)
(* it leaves the store as that call left it.                                *)
C5_EnsureIdempotent ==
    [][ op' = "ensure-again" => playerRatings' = playerRatings ]_vars

(* The second of two calls in a row with the same non-empty list, one that  *)
(* names a player twice with different ratings included                     *)
C5_Witness ==
    /\ op = "ensure-again"
    /\ Len(ensArgs) = 2
    /\ ensArgs[1].steamID = ensArgs[2].steamID
    /\ ensArgs[1].skillMu # ensArgs[2].skillMu

(* C6: the balance factor is in [0.5, 1.8]; it is 1 when the team averages  *)
(* differ by d <= 3; for d > 3 it is 1.3 + min(0.4, d / 10) when the        *)
(* player's outcome is an upset and 0.8 - min(0.2, d / 15) otherwise.       *)
C6_BalanceFactor ==
    cur.kind = "established" =>
        LET f == cur.balanceFactor
        IN  /\ 5 * f.d <= 10 * f.n
            /\ 10 * f.n <= 18 * f.d
            /\ SkillDiffN <= 3 * SkillW => f = RInt(1)
            /\ (SkillDiffN > 3 * SkillW /\ CurUpset) =>
                  f.n * 10 * SkillW = f.d * (13 * SkillW + IMin(4 * SkillW, SkillDiffN))
            /\ (SkillDiffN > 3 * SkillW /\ ~CurUpset) =>
                  f.n * 30 * SkillW = f.d * (24 * SkillW - IMin(6 * SkillW, 2 * SkillDiffN))

(* An upset with 3 < d < 4: the factor is 1.3 + d / 10, below the cap *)
C6_Witness ==
    /\ cur.kind = "established"
    /\ SkillDiffN > 3 * SkillW
    /\ SkillDiffN < 4 * SkillW
    /\ CurUpset

(* C7 as claimed: the carry adjustment is 0 when the team has fewer than 2  *)
(* players or |diff| < 0.4, and otherwise, from |diff| = 0.4 on, the        *)
(* rounded value of the quadrant.                                           *)
C7_CarryAsClaimed ==
    cur.kind = "established" =>
        IF cur.teamLen < 2 \/ Abs(DiffN) < 4 * DiffM
        THEN cur.carryAdjustment = 0
        ELSE
          /\ (DiffN > 0 /\ ~CurTeamWon) =>
                cur.carryAdjustment = IMin(18, RoundDiv(12 * DiffN, 10 * DiffM))
          /\ (DiffN > 0 /\ CurTeamWon) =>
                cur.carryAdjustment = IMin(8, RoundDiv(4 * DiffN, 10 * DiffM))
          /\ (DiffN < 0 /\ CurTeamWon) =>
                cur.carryAdjustment = IMax(-12, RoundDiv(8 * DiffN, 10 * DiffM))
          /\ (DiffN < 0 /\ ~CurTeamWon) =>
                cur.carryAdjustment = IMax(-10, RoundDiv(6 * DiffN, 10 * DiffM))

(* C7 as amended: the carry adjustment is 0 when the team has fewer than 2  *)
(* players or |diff| <= 0.4; for diff > 0.4 and for diff < -0.4 it is the   *)
(* rounded value of the quadrant within its cap; diff = 1.0 on a losing     *)
(* team gives 12.                                                           *)
C7_CarryAdjustment ==
    cur.kind = "established" =>
        /\ IF cur.teamLen < 2 \/ Abs(DiffN) <= 4 * DiffM
           THEN cur.carryAdjustment = 0
           ELSE
             /\ (DiffN > 0 /\ ~CurTeamWon) =>
                   cur.carryAdjustment = IMin(18, RoundDiv(12 * DiffN, 10 * DiffM))
             /\ (DiffN > 0 /\ CurTeamWon) =>
                   cur.carryAdjustment = IMin(8, RoundDiv(4 * DiffN, 10 * DiffM))
             /\ (DiffN < 0 /\ CurTeamWon) =>
                   cur.carryAdjustment = IMax(-12, RoundDiv(8 * DiffN, 10 * DiffM))
             /\ (DiffN < 0 /\ ~CurTeamWon) =>
                   cur.carryAdjustment = IMax(-10, RoundDiv(6 * DiffN, 10 * DiffM))
        /\ (cur.teamLen >= 2 /\ DiffN = 10 * DiffM /\ ~CurTeamWon) =>
              cur.carryAdjustment = 12

(* A player 1.0 above the teammates on the losing team: 12 *)
C7_Witness ==
    /\ cur.kind = "established"
    /\ cur.teamLen >= 2
    /\ DiffN = 10 * DiffM
    /\ ~CurTeamWon
    /\ cur.carryAdjustment = 12

(* C8: a player with no previous match detail gets mmrDelta = mmrAfterMatch *)
(* = the value of calculateInitialMMR, with no base change, balance factor, *)
(* carry adjustment or clamp; a player with a previous match detail takes   *)
(* the established branch.                                                  *)
C8_FirstMatchPlacement ==
    cur.kind # "none" =>
        /\ cur.previousMatchDetail = Null =>
              /\ cur.kind = "first"
              /\ cur.mmrDelta = cur.initialMMR
              /\ cur.mmrAfterMatch = cur.initialMMR
        /\ cur.previousMatchDetail # Null => cur.kind = "established"

(* A placement on the losing team far above the clamp of the other branch *)
C8_Witness ==
    /\ cur.kind = "first"
    /\ ~CurTeamWon
    /\ cur.mmrDelta > 40

(* C9: in a processed match one team has rank 1 at the oracle and the other *)
(* rank 2, and a player has isWinner exactly when the player's team is the  *)
(* one with rank 1, equal total kills included.                             *)
C9_ExactlyOneWinner ==
    /\ InMatch => match.rank \in { <<1, 2>>, <<2, 1>> }
    /\ cur.kind # "none" => (cur.isWinner <=> match.rank[cur.teamIdx] = 1)

(* A match with equal total kills in which the red team is the winner *)
C9_Witness ==
    /\ cur.kind # "none"
    /\ match.tied
    /\ cur.teamIdx = 2
    /\ cur.isWinner

(* C10: no step removes an identity from the store; processMatch gives      *)
(* every participant an entry before the adjustments, reuses an entry that  *)
(* exists without seeding it again, and neither it nor the oracle's update  *)
(* touches the rating of a player who is not in the match.                  *)
C10_StoreOnlyGrows ==
    [][ /\ \A p \in Players : playerRatings[p] # Absent => playerRatings'[p] # Absent
        /\ op' = "processMatch" =>
              /\ \A p \in Players \ Participants' : playerRatings'[p] = playerRatings[p]
              /\ \A p \in Participants' :
                    /\ playerRatings'[p] # Absent
                    /\ playerRatings[p] # Absent => playerRatings'[p] = playerRatings[p]
              /\ \A t \in 1..2 : \A i \in 1..Len(Teams'[t]) :
                    match'.oldRatings[t][i] = playerRatings'[Teams'[t][i]]
        /\ op' = "rate" =>
              \A p \in Players \ Participants : playerRatings'[p] = playerRatings[p]
        /\ op' \in {"adjust", "next", "throw", "return", "catch"} =>
              playerRatings' = playerRatings ]_vars

(* The oracle's update is in the store, a participant's rating has changed  *)
(* and a player outside the match has an entry.                             *)
C10_Witness ==
    /\ op = "rate"
    /\ \E p \in Players \ Participants : playerRatings[p] # Absent
    /\ \E t \in 1..2 : \E i \in 1..Len(Teams[t]) :
          playerRatings[Teams[t][i]] # match.oldRatings[t][i]

=============================================================================
